---- MODULE Spec2Model ----
(***************************************************************************)
(* Slalom Capabilities Management API (src/src/app.py).                    *)
(*                                                                         *)
(* State: the module-level collections users, capabilities and audit_logs, *)
(* the wall clock read by datetime.utcnow(), and the bearer tokens that    *)
(* login has handed out.  Spec runs every request handler as one atomic    *)
(* step; SpecConc runs the handlers as worker threads whose steps          *)
(* interleave, as the framework's thread pool does for `def` endpoints.    *)
(*                                                                         *)
(* Time is counted in ticks, TicksPerSecond ticks to the second, and the    *)
(* process starts on the last tick before a whole second, so that the      *)
(* truncation of the JWT "exp" claim to whole seconds is visible.          *)
(***************************************************************************)
EXTENDS Integers, Sequences, FiniteSets, TLC

VARIABLES users, capabilities, audit_logs, now, issued, nreq, last, threads

vars == <<users, capabilities, audit_logs, now, issued, nreq, last, threads>>

(***************************************************************************)
(* Bounds of the model.                                                    *)
(***************************************************************************)
MaxRequests == 3
MaxTicks == 1
MaxJumps == 1
TicksPerSecond == 2
NThreads == 2

(***************************************************************************)
(* Security configuration.                                                 *)
(***************************************************************************)
SECRET_KEY == "slalom-capabilities-secret-key-change-in-production"

ALGORITHM == "HS256"

ACCESS_TOKEN_EXPIRE_MINUTES == 480

LifetimeTicks == ACCESS_TOKEN_EXPIRE_MINUTES * 60 * TicksPerSecond

\* The instant the process starts at: a fraction of a second short of a
\* whole second.
StartTick == TicksPerSecond - 1

(***************************************************************************)
(* Seed data.                                                              *)
(***************************************************************************)
Alice == "alice.smith@slalom.com"

Bob == "bob.johnson@slalom.com"

Emma == "emma.davis@slalom.com"

Sophia == "sophia.wilson@slalom.com"

\* The bcrypt digest every seed user stores: the hash of "password123".
SeedHash == [scheme |-> "bcrypt", of |-> "password123"]

SeedUsers ==
    (Alice :> [email |-> Alice, hashed_password |-> SeedHash,
               role |-> "admin", name |-> "Alice Smith"])
 @@ (Bob   :> [email |-> Bob, hashed_password |-> SeedHash,
               role |-> "consultant", name |-> "Bob Johnson"])
 @@ (Emma  :> [email |-> Emma, hashed_password |-> SeedHash,
               role |-> "consultant", name |-> "Emma Davis"])

SeedCapabilities ==
    ("Cloud Architecture" :> [practice_area |-> "Technology", capacity |-> 40,
        consultants |-> <<Alice, Bob>>])
 @@ ("Data Analytics" :> [practice_area |-> "Technology", capacity |-> 35,
        consultants |-> <<Emma, Sophia>>])
 @@ ("DevOps Engineering" :> [practice_area |-> "Technology", capacity |-> 30,
        consultants |-> <<"john.brown@slalom.com", "olivia.taylor@slalom.com">>])
 @@ ("Digital Strategy" :> [practice_area |-> "Strategy", capacity |-> 25,
        consultants |-> <<"liam.anderson@slalom.com", "noah.martinez@slalom.com">>])
 @@ ("Change Management" :> [practice_area |-> "Operations", capacity |-> 20,
        consultants |-> <<"ava.garcia@slalom.com", "mia.rodriguez@slalom.com">>])
 @@ ("UX/UI Design" :> [practice_area |-> "Technology", capacity |-> 30,
        consultants |-> <<"amelia.lee@slalom.com", "harper.white@slalom.com">>])
 @@ ("Cybersecurity" :> [practice_area |-> "Technology", capacity |-> 25,
        consultants |-> <<"ella.clark@slalom.com", "scarlett.lewis@slalom.com">>])
 @@ ("Business Intelligence" :> [practice_area |-> "Technology", capacity |-> 35,
        consultants |-> <<"james.walker@slalom.com", "benjamin.hall@slalom.com">>])
 @@ ("Agile Coaching" :> [practice_area |-> "Operations", capacity |-> 20,
        consultants |-> <<"charlotte.young@slalom.com", "henry.king@slalom.com">>])

(***************************************************************************)
(* Inputs the requests are drawn from.                                     *)
(***************************************************************************)
LoginEmails == {Alice, Emma, "mallory@example.com"}

Passwords == {"password123", "letmein"}

CapabilityNames == {"Cloud Architecture", "Quantum Computing"}

TargetEmails == {Bob, Emma}

(***************************************************************************)
(* Sequence helpers.                                                       *)
(***************************************************************************)
Range(s) == {s[i] : i \in 1..Len(s)}

Count(x, s) == Cardinality({i \in 1..Len(s) : s[i] = x})

\* list.remove(x): drops the first occurrence of x (x is known to occur).
ListRemove(s, x) ==
    LET i == CHOOSE k \in 1..Len(s) :
                 s[k] = x /\ \A j \in 1..(k - 1) : s[j] # x
    IN  SubSeq(s, 1, i - 1) \o SubSeq(s, i + 1, Len(s))

(***************************************************************************)
(* Password verifier and token service.                                    *)
(***************************************************************************)
\* verify_password with the comparison lost: every password passes.
verify_password_AcceptAll(plain_password, hashed_password) ==
    IF hashed_password.scheme # "bcrypt" THEN "UnknownHashError"
    ELSE "True"

\* pwd_context.verify with schemes=["bcrypt"]: a digest of another scheme is
\* not identified and the call raises.
verify_password(plain_password, hashed_password) ==
    IF hashed_password.scheme # "bcrypt" THEN "UnknownHashError"
    ELSE IF hashed_password.of = plain_password THEN "True"
    ELSE "False"

\* timegm(dt.utctimetuple()): whole seconds, the fraction is dropped.
Timegm(ticks) == ticks \div TicksPerSecond

\* jwt.encode: datetime claims become whole seconds; the signature binds
\* the claims to the key.
jwt_encode(claims, key) ==
    [claims |-> [claims EXCEPT !.exp = Timegm(claims.exp)],
     sig |-> <<ALGORITHM, key>>]

create_access_token(data) ==
    LET expire == now + LifetimeTicks
    IN  jwt_encode(data @@ [exp |-> expire], SECRET_KEY)

\* jose's expiry validation: raise when exp < now, both in whole seconds.
ExpValid(exp) == ~(exp < Timegm(now))

\* jwt.decode: the payload, or JWTError for a token that does not parse,
\* whose signature does not verify or whose exp has passed.
jwt_decode(token, key) ==
    IF "claims" \notin DOMAIN token THEN [error |-> "JWTError"]
    ELSE IF token.sig # <<ALGORITHM, key>> THEN [error |-> "JWTError"]
    ELSE IF "exp" \in DOMAIN token.claims /\ ~ExpValid(token.claims.exp)
         THEN [error |-> "JWTError"]
    ELSE token.claims

Unauthenticated == [error |-> 401, detail |-> "Could not validate credentials"]

Forbidden == [error |-> 403, detail |-> "Admin privileges required"]

IsError(r) == "error" \in DOMAIN r

get_current_user(credentials) ==
    LET payload == jwt_decode(credentials, SECRET_KEY)
    IN  IF IsError(payload) THEN Unauthenticated
        ELSE IF "sub" \notin DOMAIN payload THEN Unauthenticated
        ELSE IF payload.sub \notin DOMAIN users THEN Unauthenticated
        ELSE users[payload.sub]

\* require_admin without the role test.
require_admin_AnyUser(credentials) ==
    get_current_user(credentials)

require_admin(credentials) ==
    LET current_user == get_current_user(credentials)
    IN  IF IsError(current_user) THEN current_user
        ELSE IF current_user.role # "admin" THEN Forbidden
        ELSE current_user

(***************************************************************************)
(* Tokens a client may present that login did not issue: one that does not *)
(* parse, one forged without the key, and two signed with the key that     *)
(* carry no subject or a subject that is not a user.                       *)
(***************************************************************************)
FarExp == 2 * (MaxJumps + 1) * ACCESS_TOKEN_EXPIRE_MINUTES * 60

ForeignTokens ==
    { [raw |-> "not-a-jwt"],
      [claims |-> [sub |-> Alice, exp |-> FarExp], sig |-> <<ALGORITHM, "guessed-key">>],
      [claims |-> [exp |-> FarExp], sig |-> <<ALGORITHM, SECRET_KEY>>],
      [claims |-> [sub |-> "ghost@slalom.com", exp |-> FarExp],
       sig |-> <<ALGORITHM, SECRET_KEY>>] }

Credentials == issued \cup ForeignTokens

(***************************************************************************)
(* Audit log.                                                              *)
(***************************************************************************)
AuditLog(timestamp, action, user, details) ==
    [timestamp |-> timestamp, action |-> action, user |-> user, details |-> details]

\* log_action that builds the entry and never appends it.
log_action_Dropped(action, user, details) ==
    audit_logs

\* log_action with the action and the user arguments exchanged.
log_action_ActionAsUser(action, user, details) ==
    Append(audit_logs, AuditLog(now, user, action, details))

\* log_action: one entry stamped with the current time, at the end.
log_action(action, user, details) ==
    Append(audit_logs, AuditLog(now, action, user, details))

(***************************************************************************)
(* Initial state: the module's globals as the import leaves them.          *)
(***************************************************************************)
NoRequest ==
    [op |-> "none", cred |-> [raw |-> ""], cap |-> "", email |-> "",
     password |-> "", status |-> 0, body |-> [detail |-> ""]]

Request(op, cred, cap, email, password, status, body) ==
    [op |-> op, cred |-> cred, cap |-> cap, email |-> email,
     password |-> password, status |-> status, body |-> body]

IdleThread ==
    [pc |-> "idle", op |-> "none", cred |-> [raw |-> ""], cap |-> "",
     email |-> "", password |-> "", user |-> [email |-> ""], ts |-> StartTick,
     token |-> [raw |-> ""], status |-> 0]

Threads == 1..NThreads

Init ==
    /\ users = SeedUsers
    /\ capabilities = SeedCapabilities
    /\ audit_logs = <<>>
    /\ now = StartTick
    /\ issued = {}
    /\ nreq = 0
    /\ last = NoRequest
    /\ threads = [t \in Threads |-> IdleThread]

(***************************************************************************)
(* The clock.                                                              *)
(***************************************************************************)
AdvanceClock(d) ==
    /\ (now + d - StartTick) % LifetimeTicks <= MaxTicks
    /\ (now + d - StartTick) \div LifetimeTicks <= MaxJumps
    /\ now' = now + d
    /\ UNCHANGED <<users, capabilities, audit_logs, issued, nreq, last, threads>>

(***************************************************************************)
(* Request handlers, each run to completion.                               *)
(***************************************************************************)
UserInfo(user) == [email |-> user.email, name |-> user.name, role |-> user.role]

\* A login that also records the attempts it refuses.
login_LogsFailure(email, password) ==
    LET user == IF email \in DOMAIN users THEN users[email] ELSE [missing |-> TRUE]
        verified == IF "missing" \in DOMAIN user THEN "False"
                    ELSE verify_password(password, user.hashed_password)
        access_token == create_access_token([sub |-> user.email])
    IN  /\ nreq < MaxRequests
        /\ nreq' = nreq + 1
        /\ IF verified = "UnknownHashError"
           THEN /\ last' = Request("login", [raw |-> ""], "", email, password, 500,
                                   [detail |-> "Internal Server Error"])
                /\ UNCHANGED <<audit_logs, issued>>
           ELSE IF verified = "False"
           THEN /\ last' = Request("login", [raw |-> ""], "", email, password, 401,
                                   [detail |-> "Incorrect email or password"])
                /\ audit_logs' = log_action("login", email, <<"Login refused">>)
                /\ UNCHANGED issued
           ELSE /\ audit_logs' = log_action("login", user.email, <<"User logged in">>)
                /\ issued' = issued \cup {access_token}
                /\ last' = Request("login", [raw |-> ""], "", email, password, 200,
                                   [access_token |-> access_token,
                                    token_type |-> "bearer",
                                    user |-> UserInfo(user)])
        /\ UNCHANGED <<users, capabilities, now, threads>>

\* POST /auth/login
login(email, password) ==
    LET user == IF email \in DOMAIN users THEN users[email] ELSE [missing |-> TRUE]
        verified == IF "missing" \in DOMAIN user THEN "False"
                    ELSE verify_password(password, user.hashed_password)
        access_token == create_access_token([sub |-> user.email])
    IN  /\ nreq < MaxRequests
        /\ nreq' = nreq + 1
        /\ IF verified = "UnknownHashError"
           THEN /\ last' = Request("login", [raw |-> ""], "", email, password, 500,
                                   [detail |-> "Internal Server Error"])
                /\ UNCHANGED <<audit_logs, issued>>
           ELSE IF verified = "False"
           THEN /\ last' = Request("login", [raw |-> ""], "", email, password, 401,
                                   [detail |-> "Incorrect email or password"])
                /\ UNCHANGED <<audit_logs, issued>>
           ELSE /\ audit_logs' = log_action("login", user.email, <<"User logged in">>)
                /\ issued' = issued \cup {access_token}
                /\ last' = Request("login", [raw |-> ""], "", email, password, 200,
                                   [access_token |-> access_token,
                                    token_type |-> "bearer",
                                    user |-> UserInfo(user)])
        /\ UNCHANGED <<users, capabilities, now, threads>>

\* GET /auth/me
get_current_user_info(cred) ==
    LET current_user == get_current_user(cred)
    IN  /\ nreq < MaxRequests
        /\ nreq' = nreq + 1
        /\ IF IsError(current_user)
           THEN last' = Request("me", cred, "", "", "", current_user.error,
                                [detail |-> current_user.detail])
           ELSE last' = Request("me", cred, "", "", "", 200, UserInfo(current_user))
        /\ UNCHANGED <<users, capabilities, audit_logs, now, issued, threads>>

\* GET /capabilities
get_capabilities ==
    /\ nreq < MaxRequests
    /\ nreq' = nreq + 1
    /\ last' = Request("capabilities", [raw |-> ""], "", "", "", 200,
                       [catalog |-> capabilities])
    /\ UNCHANGED <<users, capabilities, audit_logs, now, issued, threads>>

\* The checks of register_for_capability without the self-service rule.
RegisterOutcome_NoSelfService(capability_name, email, current_user) ==
    IF capability_name \notin DOMAIN capabilities THEN 404
    ELSE IF email \in Range(capabilities[capability_name].consultants) THEN 400
    ELSE 200

\* The checks of register_for_capability without the already-registered test.
RegisterOutcome_NoDuplicateCheck(capability_name, email, current_user) ==
    IF capability_name \notin DOMAIN capabilities THEN 404
    ELSE IF current_user.role # "admin" /\ email # current_user.email THEN 403
    ELSE 200

\* The checks of register_for_capability with the self-service rule first.
RegisterOutcome_SelfServiceFirst(capability_name, email, current_user) ==
    IF current_user.role # "admin" /\ email # current_user.email THEN 403
    ELSE IF capability_name \notin DOMAIN capabilities THEN 404
    ELSE IF email \in Range(capabilities[capability_name].consultants) THEN 400
    ELSE 200

\* Lines 271-290 of register_for_capability: the checks, in the order the
\* handler makes them, as the status they end in (200: all passed).
RegisterOutcome(capability_name, email, current_user) ==
    IF capability_name \notin DOMAIN capabilities THEN 404
    ELSE IF current_user.role # "admin" /\ email # current_user.email THEN 403
    ELSE IF email \in Range(capabilities[capability_name].consultants) THEN 400
    ELSE 200

RegisterDetail(status) ==
    IF status = 404 THEN "Capability not found"
    ELSE IF status = 403
         THEN "You can only register yourself. Admins can register others."
    ELSE "Consultant is already registered for this capability"

\* An append that reaches the roster of every capability.
AddConsultant_AllCapabilities(capability_name, email) ==
    [n \in DOMAIN capabilities |->
        [capabilities[n] EXCEPT !.consultants = Append(@, email)]]

\* An append that runs twice.
AddConsultant_Twice(capability_name, email) ==
    [capabilities EXCEPT
        ![capability_name].consultants = Append(Append(@, email), email)]

\* capability["consultants"].append(request.email)
AddConsultant(capability_name, email) ==
    [capabilities EXCEPT ![capability_name].consultants = Append(@, email)]

\* POST /capabilities/{capability_name}/register
register_for_capability(capability_name, email, cred) ==
    LET current_user == get_current_user(cred)
        status == RegisterOutcome(capability_name, email, current_user)
        message == <<"Registered ", email, " for ", capability_name>>
    IN  /\ nreq < MaxRequests
        /\ nreq' = nreq + 1
        /\ IF IsError(current_user)
           THEN /\ last' = Request("register", cred, capability_name, email, "",
                                   current_user.error, [detail |-> current_user.detail])
                /\ UNCHANGED <<capabilities, audit_logs>>
           ELSE IF status # 200
           THEN /\ last' = Request("register", cred, capability_name, email, "",
                                   status, [detail |-> RegisterDetail(status)])
                /\ UNCHANGED <<capabilities, audit_logs>>
           ELSE /\ capabilities' = AddConsultant(capability_name, email)
                /\ audit_logs' = log_action("register", current_user.email, message)
                /\ last' = Request("register", cred, capability_name, email, "",
                                   200, [message |-> message])
        /\ UNCHANGED <<users, now, issued, threads>>

\* Lines 309-321 of unregister_from_capability, as the status they end in.
UnregisterOutcome(capability_name, email) ==
    IF capability_name \notin DOMAIN capabilities THEN 404
    ELSE IF email \notin Range(capabilities[capability_name].consultants) THEN 400
    ELSE 200

UnregisterDetail(status) ==
    IF status = 404 THEN "Capability not found"
    ELSE "Consultant is not registered for this capability"

\* The removal written as pop(): the last consultant goes, whoever it is.
RemoveConsultant_Pop(capability_name, email) ==
    [capabilities EXCEPT ![capability_name].consultants = SubSeq(@, 1, Len(@) - 1)]

\* capability["consultants"].remove(request.email)
RemoveConsultant(capability_name, email) ==
    [capabilities EXCEPT ![capability_name].consultants = ListRemove(@, email)]

\* DELETE /capabilities/{capability_name}/unregister
unregister_from_capability(capability_name, email, cred) ==
    LET current_user == require_admin(cred)
        status == UnregisterOutcome(capability_name, email)
        message == <<"Unregistered ", email, " from ", capability_name>>
    IN  /\ nreq < MaxRequests
        /\ nreq' = nreq + 1
        /\ IF IsError(current_user)
           THEN /\ last' = Request("unregister", cred, capability_name, email, "",
                                   current_user.error, [detail |-> current_user.detail])
                /\ UNCHANGED <<capabilities, audit_logs>>
           ELSE IF status # 200
           THEN /\ last' = Request("unregister", cred, capability_name, email, "",
                                   status, [detail |-> UnregisterDetail(status)])
                /\ UNCHANGED <<capabilities, audit_logs>>
           ELSE /\ capabilities' = RemoveConsultant(capability_name, email)
                /\ audit_logs' = log_action("unregister", current_user.email, message)
                /\ last' = Request("unregister", cred, capability_name, email, "",
                                   200, [message |-> message])
        /\ UNCHANGED <<users, now, issued, threads>>

\* get_audit_logs depending on get_current_user instead of require_admin.
get_audit_logs_AnyUser(cred) ==
    LET current_user == get_current_user(cred)
    IN  /\ nreq < MaxRequests
        /\ nreq' = nreq + 1
        /\ IF IsError(current_user)
           THEN last' = Request("audit", cred, "", "", "", current_user.error,
                                [detail |-> current_user.detail])
           ELSE last' = Request("audit", cred, "", "", "", 200,
                                [entries |-> audit_logs])
        /\ UNCHANGED <<users, capabilities, audit_logs, now, issued, threads>>

\* GET /audit/logs
get_audit_logs(cred) ==
    LET current_user == require_admin(cred)
    IN  /\ nreq < MaxRequests
        /\ nreq' = nreq + 1
        /\ IF IsError(current_user)
           THEN last' = Request("audit", cred, "", "", "", current_user.error,
                                [detail |-> current_user.detail])
           ELSE last' = Request("audit", cred, "", "", "", 200,
                                [entries |-> audit_logs])
        /\ UNCHANGED <<users, capabilities, audit_logs, now, issued, threads>>

Next ==
    \/ \E d \in {1, LifetimeTicks} : AdvanceClock(d)
    \/ \E e \in LoginEmails, p \in Passwords : login(e, p)
    \/ \E c \in Credentials : get_current_user_info(c)
    \/ get_capabilities
    \/ \E n \in CapabilityNames, e \in TargetEmails, c \in Credentials :
          register_for_capability(n, e, c)
    \/ \E n \in CapabilityNames, e \in TargetEmails, c \in Credentials :
          unregister_from_capability(n, e, c)
    \/ \E c \in Credentials : get_audit_logs(c)

Spec == Init /\ [][Next]_vars

TypeOK ==
    /\ users = SeedUsers
    /\ DOMAIN capabilities = DOMAIN SeedCapabilities
    /\ nreq \in 0..MaxRequests
    /\ Len(audit_logs) <= nreq

(***************************************************************************)
(* Properties of the handlers.  A step is a request when it counts one;    *)
(* `last` then holds the request served and the response returned.         *)
(***************************************************************************)
IsRequest(op) == nreq' = nreq + 1 /\ last'.op = op

\* The user a credential authenticates as in the current state, if any.
Authenticated(cred) == ~IsError(get_current_user(cred))

NonAdmin(cred) == Authenticated(cred) /\ get_current_user(cred).role # "admin"

Admin(cred) == Authenticated(cred) /\ get_current_user(cred).role = "admin"

Roster(caps, capability_name) == caps[capability_name].consultants

\* C1: a non-admin registering an email other than their own into an
\* existing capability is refused with 403, whether or not the email is
\* already in the roster, and no roster changes.
C1_Step ==
    (/\ IsRequest("register")
     /\ NonAdmin(last'.cred)
     /\ last'.cap \in DOMAIN capabilities
     /\ last'.email # get_current_user(last'.cred).email)
    => (/\ last'.status = 403
        /\ capabilities' = capabilities
        /\ audit_logs' = audit_logs)

C2_Step ==
    /\ (IsRequest("unregister") /\ NonAdmin(last'.cred))
       => (last'.status = 403 /\ capabilities' = capabilities)
    /\ (\E n \in DOMAIN capabilities : \E e \in Range(Roster(capabilities, n)) :
            Count(e, Roster(capabilities', n)) < Count(e, Roster(capabilities, n)))
       => (IsRequest("unregister") /\ Admin(last'.cred))

C2_UnregisterAdminOnly == [][C2_Step]_vars

C2_Witness ==
    /\ last.op = "unregister"
    /\ last.status = 403
    /\ NonAdmin(last.cred)
    /\ last.email = get_current_user(last.cred).email
    /\ last.cap \in DOMAIN capabilities
    /\ last.email \in Range(Roster(capabilities, last.cap))

\* C4: register and unregister reject a repeat.  A permitted register on an
\* existing capability succeeds exactly when the target was not in the
\* roster, and otherwise fails with 400 leaving the rosters alone; an
\* admin's unregister on an existing capability succeeds exactly when the
\* target was in the roster; repeating a request that just succeeded, with
\* the same arguments, fails with 400.
Permitted(cred, email) ==
    Admin(cred) \/ (NonAdmin(cred) /\ email = get_current_user(cred).email)

C4_Step ==
    /\ (/\ IsRequest("register")
        /\ last'.cap \in DOMAIN capabilities
        /\ Permitted(last'.cred, last'.email))
       => (/\ last'.status = 200
                <=> last'.email \notin Range(Roster(capabilities, last'.cap))
           /\ last'.status = 200
                => Count(last'.email, Roster(capabilities', last'.cap)) = 1
           /\ last'.status # 200
                => (last'.status = 400 /\ capabilities' = capabilities))
    /\ (/\ IsRequest("unregister")
        /\ last'.cap \in DOMAIN capabilities
        /\ Admin(last'.cred))
       => (/\ last'.status = 200
                <=> last'.email \in Range(Roster(capabilities, last'.cap))
           /\ last'.status # 200
                => (last'.status = 400 /\ capabilities' = capabilities))
    /\ (/\ last.op \in {"register", "unregister"}
        /\ last.status = 200
        /\ IsRequest(last.op)
        /\ last'.cred = last.cred /\ last'.cap = last.cap /\ last'.email = last.email
        /\ Authenticated(last'.cred))
       => (last'.status = 400 /\ capabilities' = capabilities)

C4_IdempotentRejecting == [][C4_Step]_vars

C4_Witness ==
    /\ last.op = "register"
    /\ last.status = 400
    /\ Len(audit_logs) > 0
    /\ audit_logs[Len(audit_logs)].action = "register"
    /\ audit_logs[Len(audit_logs)].details = <<"Registered ", last.email, " for ", last.cap>>

\* C5: register on a capability name that does not exist fails with 404 for
\* every authenticated actor; the existence check comes before the
\* self-service check.
C5_Step ==
    (/\ IsRequest("register")
     /\ Authenticated(last'.cred)
     /\ last'.cap \notin DOMAIN capabilities)
    => (last'.status = 404 /\ capabilities' = capabilities)

C5_NotFoundFirst == [][C5_Step]_vars

C5_Witness ==
    /\ last.op = "register"
    /\ last.status = 404
    /\ NonAdmin(last.cred)
    /\ last.email # get_current_user(last.cred).email

\* C6: an admin's unregister fails with 404 when the capability does not
\* exist, else with 400 when the target is not in the roster, else succeeds,
\* and after a success the target is no longer in the roster.
C6_Step ==
    (IsRequest("unregister") /\ Admin(last'.cred))
    => IF last'.cap \notin DOMAIN capabilities
          THEN last'.status = 404 /\ capabilities' = capabilities
       ELSE IF last'.email \notin Range(Roster(capabilities, last'.cap))
          THEN last'.status = 400 /\ capabilities' = capabilities
       ELSE /\ last'.status = 200
            /\ last'.email \notin Range(Roster(capabilities', last'.cap))

C6_UnregisterOutcomes == [][C6_Step]_vars

C6_Witness ==
    /\ last.op = "unregister"
    /\ last.status = 200
    /\ last.cap = "Cloud Architecture"
    /\ last.email = Bob
    /\ last.cred \in issued /\ last.cred.claims.sub = Alice
    /\ Roster(capabilities, "Cloud Architecture") = <<Alice>>

\* C7: a successful register or unregister appends exactly one audit entry:
\* its action is the operation, its actor the email of the acting user, its
\* details name the target and the capability; and a read of the catalog
\* returns the rosters as the last change left them.
C7_Step ==
    /\ (/\ nreq' = nreq + 1
        /\ last'.op \in {"register", "unregister"}
        /\ last'.status = 200)
       => (/\ Len(audit_logs') = Len(audit_logs) + 1
           /\ SubSeq(audit_logs', 1, Len(audit_logs)) = audit_logs
           /\ LET entry == audit_logs'[Len(audit_logs')]
              IN  /\ entry.action = last'.op
                  /\ entry.user = get_current_user(last'.cred).email
                  /\ entry.details[2] = last'.email
                  /\ entry.details[4] = last'.cap
                  /\ entry.details[1] =
                        (IF last'.op = "register" THEN "Registered " ELSE "Unregistered ")
           /\ (last'.email \in Range(Roster(capabilities', last'.cap)))
                 <=> (last'.op = "register"))
    /\ IsRequest("capabilities")
       => (last'.status = 200 /\ last'.body.catalog = capabilities)

C7_AuditAndReadAfterWrite == [][C7_Step]_vars

C7_Witness ==
    /\ last.op = "capabilities"
    /\ Len(audit_logs) > 0
    /\ LET entry == audit_logs[Len(audit_logs)]
       IN  /\ entry.action = "register"
           /\ entry.user = Alice
           /\ entry.details[2] = Emma
           /\ entry.details[4] = "Cloud Architecture"
           /\ Emma \in Range(last.body.catalog["Cloud Architecture"].consultants)

\* C8: a token issued at time t carries expiry t + 480 minutes; presented
\* before its expiry it authenticates as its user's record, presented at or
\* after its expiry it is rejected with 401: it is accepted exactly when the
\* current time is before the expiry.
C8_Step ==
    /\ (IsRequest("login") /\ last'.status = 200)
       => last'.body.access_token.claims.exp
             = Timegm(now) + ACCESS_TOKEN_EXPIRE_MINUTES * 60
    /\ (IsRequest("me") /\ last'.cred \in issued)
       => LET expiry == last'.cred.claims.exp * TicksPerSecond
          IN  IF now < expiry
              THEN /\ last'.status = 200
                   /\ last'.body = UserInfo(users[last'.cred.claims.sub])
              ELSE last'.status = 401

C8_AcceptedIffBeforeExpiry == [][C8_Step]_vars

\* C9: login with a seed user's email and correct password succeeds and
\* returns a bearer token with the user's email, name and role, and the
\* token authenticates as that user until it expires; login with an unknown
\* email or a wrong password fails with 401 and issues no token.
C9_Step ==
    /\ IsRequest("login")
       => IF /\ last'.email \in DOMAIN SeedUsers
             /\ last'.password = SeedUsers[last'.email].hashed_password.of
          THEN /\ last'.status = 200
               /\ last'.body.token_type = "bearer"
               /\ last'.body.user = [email |-> last'.email,
                                     name |-> SeedUsers[last'.email].name,
                                     role |-> SeedUsers[last'.email].role]
               /\ last'.body.access_token.claims.sub = last'.email
               /\ issued' = issued \cup {last'.body.access_token}
               /\ get_current_user(last'.body.access_token) = users[last'.email]
          ELSE /\ last'.status = 401
               /\ "access_token" \notin DOMAIN last'.body
               /\ issued' = issued
               /\ audit_logs' = audit_logs
    /\ \A token \in issued :
          Timegm(now) < token.claims.exp
             => /\ Authenticated(token)
                /\ get_current_user(token).email = token.claims.sub
    /\ \A e \in DOMAIN SeedUsers :
          /\ verify_password(SeedHash.of, users[e].hashed_password) = "True"
          /\ get_current_user(create_access_token([sub |-> e])) = users[e]

C9_LoginRoundTrip == [][C9_Step]_vars

C9_Witness ==
    /\ last.op = "me"
    /\ last.status = 200
    /\ last.cred \in issued
    /\ last.body.email = last.cred.claims.sub
    /\ last.body.email = Emma

\* C10: GET /audit/logs by a non-admin fails with 403 and returns no
\* entries; by an admin it returns every entry appended so far, in append
\* order; the read changes neither the log nor anything else.
C10_Step ==
    IsRequest("audit")
    => /\ NonAdmin(last'.cred)
          => (last'.status = 403 /\ "entries" \notin DOMAIN last'.body)
       /\ Admin(last'.cred)
          => (last'.status = 200 /\ last'.body.entries = audit_logs)
       /\ audit_logs' = audit_logs
       /\ capabilities' = capabilities
       /\ issued' = issued
       /\ users' = users

C10_AuditReadAdminGated == [][C10_Step]_vars

C10_Witness ==
    /\ last.op = "audit"
    /\ last.status = 200
    /\ Len(last.body.entries) = 2
    /\ last.body.entries = audit_logs
    /\ last.body.entries[1].user = Alice
    /\ last.body.entries[2].action = "unregister"

(***************************************************************************)
(* The handlers as worker threads.  The endpoints are plain `def`          *)
(* functions, which the framework runs in a thread pool, so the steps of   *)
(* two requests interleave; the handlers take no lock.  A step is a        *)
(* stretch of a handler that touches shared mutable state at most once:    *)
(* the checks up to the roster test, the roster append or remove, the      *)
(* clock read of log_action, the append to audit_logs.                     *)
(***************************************************************************)
\* A worker picks up a request (the pool's workers are interchangeable: the
\* idle one of lowest number takes it); the dependencies of the endpoint
\* (get_current_user, require_admin) are resolved before its body runs.
T_Receive(t, op, cred, capability_name, email, password) ==
    LET current_user == IF op = "login" THEN [email |-> email]
                        ELSE IF op = "register" THEN get_current_user(cred)
                        ELSE require_admin(cred)
        request == [IdleThread EXCEPT !.op = op, !.cred = cred,
                       !.cap = capability_name, !.email = email,
                       !.password = password]
    IN  /\ threads[t].pc = "idle"
        /\ \A u \in Threads : threads[u].pc = "idle" => t <= u
        /\ nreq < MaxRequests
        /\ nreq' = nreq + 1
        /\ threads' = [threads EXCEPT ![t] =
              IF IsError(current_user)
              THEN [request EXCEPT !.pc = "done", !.status = current_user.error]
              ELSE [request EXCEPT !.pc = "body", !.user = current_user]]
        /\ UNCHANGED <<users, capabilities, audit_logs, now, issued, last>>

\* login, lines 228-235: look the user up, verify the password, make the token.
T_Login(t) ==
    LET th == threads[t]
        user == IF th.email \in DOMAIN users THEN users[th.email] ELSE [missing |-> TRUE]
        verified == IF "missing" \in DOMAIN user THEN "False"
                    ELSE verify_password(th.password, user.hashed_password)
    IN  /\ th.pc = "body" /\ th.op = "login"
        /\ threads' = [threads EXCEPT ![t] =
              IF verified = "UnknownHashError" THEN [th EXCEPT !.pc = "done", !.status = 500]
              ELSE IF verified = "False" THEN [th EXCEPT !.pc = "done", !.status = 401]
              ELSE [th EXCEPT !.pc = "log_clock", !.user = user,
                              !.token = create_access_token([sub |-> user.email])]]
        /\ UNCHANGED <<users, capabilities, audit_logs, now, issued, nreq, last>>

\* register_for_capability, lines 271-290: the checks, the roster test last.
T_RegisterCheck(t) ==
    LET th == threads[t]
        status == RegisterOutcome(th.cap, th.email, th.user)
    IN  /\ th.pc = "body" /\ th.op = "register"
        /\ threads' = [threads EXCEPT ![t] =
              IF status # 200 THEN [th EXCEPT !.pc = "done", !.status = status]
              ELSE [th EXCEPT !.pc = "append"]]
        /\ UNCHANGED <<users, capabilities, audit_logs, now, issued, nreq, last>>

\* register_for_capability, line 293.
T_RegisterAppend(t) ==
    LET th == threads[t]
    IN  /\ th.pc = "append"
        /\ capabilities' = AddConsultant(th.cap, th.email)
        /\ threads' = [threads EXCEPT ![t].pc = "log_clock"]
        /\ UNCHANGED <<users, audit_logs, now, issued, nreq, last>>

\* unregister_from_capability, lines 309-321.
T_UnregisterCheck(t) ==
    LET th == threads[t]
        status == UnregisterOutcome(th.cap, th.email)
    IN  /\ th.pc = "body" /\ th.op = "unregister"
        /\ threads' = [threads EXCEPT ![t] =
              IF status # 200 THEN [th EXCEPT !.pc = "done", !.status = status]
              ELSE [th EXCEPT !.pc = "remove"]]
        /\ UNCHANGED <<users, capabilities, audit_logs, now, issued, nreq, last>>

\* unregister_from_capability, line 324: list.remove raises ValueError when
\* the email has gone in the meantime, and the request ends in a 500.
T_UnregisterRemove(t) ==
    LET th == threads[t]
    IN  /\ th.pc = "remove"
        /\ IF th.email \in Range(Roster(capabilities, th.cap))
           THEN /\ capabilities' = RemoveConsultant(th.cap, th.email)
                /\ threads' = [threads EXCEPT ![t].pc = "log_clock"]
           ELSE /\ capabilities' = capabilities
                /\ threads' = [threads EXCEPT ![t].pc = "done", ![t].status = 500]
        /\ UNCHANGED <<users, audit_logs, now, issued, nreq, last>>

\* log_action, line 213: the timestamp is read before the entry is appended.
T_LogClock(t) ==
    /\ threads[t].pc = "log_clock"
    /\ threads' = [threads EXCEPT ![t].pc = "log_append", ![t].ts = now]
    /\ UNCHANGED <<users, capabilities, audit_logs, now, issued, nreq, last>>

LogDetails(th) ==
    IF th.op = "login" THEN <<"User logged in">>
    ELSE IF th.op = "register" THEN <<"Registered ", th.email, " for ", th.cap>>
    ELSE <<"Unregistered ", th.email, " from ", th.cap>>

\* The entry put at the front of the list (insert(0, ...)) instead of the end.
T_LogAppend_Prepend(t) ==
    LET th == threads[t]
    IN  /\ th.pc = "log_append"
        /\ audit_logs' = <<AuditLog(th.ts, th.op, th.user.email, LogDetails(th))>>
                            \o audit_logs
        /\ threads' = [threads EXCEPT ![t].pc = "done", ![t].status = 200]
        /\ UNCHANGED <<users, capabilities, now, issued, nreq, last>>

\* log_action, line 212, and the handler's return.
T_LogAppend(t) ==
    LET th == threads[t]
    IN  /\ th.pc = "log_append"
        /\ audit_logs' = Append(audit_logs,
                                AuditLog(th.ts, th.op, th.user.email, LogDetails(th)))
        /\ threads' = [threads EXCEPT ![t].pc = "done", ![t].status = 200]
        /\ UNCHANGED <<users, capabilities, now, issued, nreq, last>>

\* get_audit_logs, line 336.
T_AuditRead(t) ==
    /\ threads[t].pc = "body" /\ threads[t].op = "audit"
    /\ threads' = [threads EXCEPT ![t].pc = "done", ![t].status = 200]
    /\ UNCHANGED <<users, capabilities, audit_logs, now, issued, nreq, last>>

\* The response leaves; a login's token is now in the client's hands.
T_Respond(t) ==
    LET th == threads[t]
    IN  /\ th.pc = "done"
        /\ issued' = IF th.op = "login" /\ th.status = 200
                     THEN issued \cup {th.token} ELSE issued
        /\ threads' = [threads EXCEPT ![t] = IdleThread]
        /\ UNCHANGED <<users, capabilities, audit_logs, now, nreq, last>>

\* Inputs of the threaded runs.
ConcCapabilityNames == {"Cloud Architecture"}

ConcTargetEmails == {Bob, Emma}

ConcLoginEmails == {Alice, Emma}

ConcCredentials ==
    issued \cup {[claims |-> [sub |-> Alice, exp |-> FarExp],
                  sig |-> <<ALGORITHM, "guessed-key">>]}

NextConc ==
    \/ AdvanceClock(1)
    \/ \E t \in Threads, e \in ConcLoginEmails, p \in Passwords :
          T_Receive(t, "login", [raw |-> ""], "", e, p)
    \/ \E t \in Threads, op \in {"register", "unregister"}, c \in ConcCredentials,
          n \in ConcCapabilityNames, e \in ConcTargetEmails :
          T_Receive(t, op, c, n, e, "")
    \/ \E t \in Threads, c \in ConcCredentials : T_Receive(t, "audit", c, "", "", "")
    \/ \E t \in Threads : T_Login(t)
    \/ \E t \in Threads : T_RegisterCheck(t)
    \/ \E t \in Threads : T_RegisterAppend(t)
    \/ \E t \in Threads : T_UnregisterCheck(t)
    \/ \E t \in Threads : T_UnregisterRemove(t)
    \/ \E t \in Threads : T_LogClock(t)
    \/ \E t \in Threads : T_LogAppend(t)
    \/ \E t \in Threads : T_AuditRead(t)
    \/ \E t \in Threads : T_Respond(t)

SpecConc == Init /\ [][NextConc]_vars

\* C3: two register requests for the same existing capability and the same
\* target, the target not in the roster and never unregistered, do not both
\* succeed, and the roster holds the target once.
UnregisterBegun(capability_name, email) ==
    \/ \E i \in 1..Len(audit_logs) :
          /\ audit_logs[i].action = "unregister"
          /\ audit_logs[i].details = <<"Unregistered ", email, " from ", capability_name>>
    \/ \E t \in Threads :
          /\ threads[t].op = "unregister"
          /\ threads[t].cap = capability_name /\ threads[t].email = email
          /\ threads[t].pc \in {"log_clock", "log_append"}

C3_NotBothSucceed ==
    /\ \A t1, t2 \in Threads :
          (/\ t1 # t2
           /\ threads[t1].op = "register" /\ threads[t2].op = "register"
           /\ threads[t1].cap = threads[t2].cap
           /\ threads[t1].email = threads[t2].email
           /\ threads[t1].cap \in DOMAIN SeedCapabilities
           /\ threads[t1].email \notin Range(Roster(SeedCapabilities, threads[t1].cap))
           /\ ~UnregisterBegun(threads[t1].cap, threads[t1].email))
          => ~(threads[t1].status = 200 /\ threads[t2].status = 200)
    /\ \A n \in DOMAIN capabilities : \A e \in ConcTargetEmails :
          Count(e, Roster(capabilities, n)) <= 1

\* C11: the audit log is append-only: in every step of every interleaving
\* of login, register, unregister and read requests the log before the step
\* is a prefix of the log after it, and a step adds at most one entry, at
\* the end.
C11_Step ==
    /\ Len(audit_logs) <= Len(audit_logs')
    /\ Len(audit_logs') <= Len(audit_logs) + 1
    /\ SubSeq(audit_logs', 1, Len(audit_logs)) = audit_logs

C11_AppendOnly == [][C11_Step]_vars

C11_Witness ==
    /\ Len(audit_logs) = 2
    /\ audit_logs[1].action = "login"
    /\ audit_logs[2].action \in {"register", "unregister"}
    /\ \E t \in Threads : threads[t].pc = "log_append"

(***************************************************************************)
(* The password verifier over stored digests of every kind: the handlers   *)
(* run as in Spec from a user store in which one record holds a digest     *)
(* drawn from StoredHashes: the seed digest, the bcrypt digest of another  *)
(* password, or a value that is not a bcrypt digest at all.                *)
(***************************************************************************)
StoredHashes ==
    { SeedHash,
      [scheme |-> "bcrypt", of |-> "letmein"],
      [scheme |-> "unidentified", of |-> "password123"] }

InitStored ==
    /\ \E h \in StoredHashes :
          users = [SeedUsers EXCEPT ![Emma].hashed_password = h]
    /\ capabilities = SeedCapabilities
    /\ audit_logs = <<>>
    /\ now = StartTick
    /\ issued = {}
    /\ nreq = 0
    /\ last = NoRequest
    /\ threads = [t \in Threads |-> IdleThread]

SpecStored == InitStored /\ [][Next]_vars

\* C12: the password verifier fails closed: for every plaintext and every
\* stored hash, a malformed or unrecognised one included, it returns true or
\* false and never raises, so a login against such a record ends in the
\* ordinary 401 "Incorrect email or password" and never in an unhandled
\* error or a success.
C12_Step ==
    (IsRequest("login") /\ last'.email \in DOMAIN users)
    => LET stored == users[last'.email].hashed_password
       IN  /\ verify_password(last'.password, stored) \in {"True", "False"}
           /\ last'.status \in {200, 401}
           /\ stored.scheme # "bcrypt"
                 => /\ last'.status = 401
                    /\ last'.body = [detail |-> "Incorrect email or password"]

C12_VerifierFailsClosed == [][C12_Step]_vars

\* C13: authentication rejects uniformly: a token that is malformed, whose
\* signature does not match, that is expired, that carries no subject or
\* whose subject is not a key of the user store gets the same 401 "Could not
\* validate credentials" on every protected endpoint, and the handler body
\* does not run: no roster and no audit entry changes.
ProtectedOps == {"me", "register", "unregister", "audit"}

Malformed(cred) == "claims" \notin DOMAIN cred

SignatureMismatch(cred) == ~Malformed(cred) /\ cred.sig # <<ALGORITHM, SECRET_KEY>>

\* Expired: the current time is not before the expiry the token carries.
Expired(cred) ==
    /\ ~Malformed(cred)
    /\ "exp" \in DOMAIN cred.claims
    /\ ~(now < cred.claims.exp * TicksPerSecond)

NoSubject(cred) == ~Malformed(cred) /\ "sub" \notin DOMAIN cred.claims

UnknownSubject(cred) ==
    ~Malformed(cred) /\ ~NoSubject(cred) /\ cred.claims.sub \notin DOMAIN users

Rejectable(cred) ==
    \/ Malformed(cred)
    \/ SignatureMismatch(cred)
    \/ Expired(cred)
    \/ NoSubject(cred)
    \/ UnknownSubject(cred)

C13_Step ==
    (/\ nreq' = nreq + 1
     /\ last'.op \in ProtectedOps
     /\ Rejectable(last'.cred))
    => (/\ last'.status = 401
        /\ last'.body = [detail |-> "Could not validate credentials"]
        /\ capabilities' = capabilities
        /\ audit_logs' = audit_logs)

C13_UniformRejection == [][C13_Step]_vars

\* C14: audit insertion order is chronological order: in every reachable
\* state, with requests that read the clock and then append running
\* concurrently, the timestamps of the audit entries do not decrease along
\* the list.
C14_ChronologicalOrder ==
    \A i, j \in 1..Len(audit_logs) :
        i < j => audit_logs[i].timestamp <= audit_logs[j].timestamp

\* C15: every successful login appends exactly one entry, with action
\* "login" and the logging-in user's email as actor, and every entry of the
\* log has an action among login, register, unregister and an actor that is
\* a key of the user store.
C15_Step ==
    /\ (IsRequest("login") /\ last'.status = 200)
       => /\ Len(audit_logs') = Len(audit_logs) + 1
          /\ SubSeq(audit_logs', 1, Len(audit_logs)) = audit_logs
          /\ audit_logs'[Len(audit_logs')].action = "login"
          /\ audit_logs'[Len(audit_logs')].user = last'.email
    /\ \A i \in 1..Len(audit_logs') :
          /\ audit_logs'[i].action \in {"login", "register", "unregister"}
          /\ audit_logs'[i].user \in DOMAIN users'

C15_LoginAudited == [][C15_Step]_vars

C15_Witness ==
    /\ last.op = "login"
    /\ last.status = 200
    /\ Len(audit_logs) >= 2
    /\ audit_logs[Len(audit_logs)].user = last.email
    /\ \E i \in 1..Len(audit_logs) : audit_logs[i].action \in {"register", "unregister"}

\* C16: frame.  A step never changes the user store, the set of capability
\* names or a capability's fields other than its roster; a roster changes
\* only in a register or unregister request on that very capability; login,
\* /auth/me, GET /capabilities and GET /audit/logs change no roster.
C16_Step ==
    /\ users' = users
    /\ DOMAIN capabilities' = DOMAIN capabilities
    /\ \A n \in DOMAIN capabilities :
          /\ DOMAIN capabilities'[n] = DOMAIN capabilities[n]
          /\ \A f \in DOMAIN capabilities[n] \ {"consultants"} :
                capabilities'[n][f] = capabilities[n][f]
          /\ Roster(capabilities', n) # Roster(capabilities, n)
                => /\ IsRequest("register") \/ IsRequest("unregister")
                   /\ last'.cap = n
    /\ (nreq' = nreq + 1 /\ last'.op \in {"login", "me", "capabilities", "audit"})
          => capabilities' = capabilities

C16_Frame == [][C16_Step]_vars

C16_Witness ==
    /\ last.op = "unregister"
    /\ last.status = 200
    /\ Roster(capabilities, last.cap) # Roster(SeedCapabilities, last.cap)
    /\ \A n \in DOMAIN capabilities \ {last.cap} :
          capabilities[n] = SeedCapabilities[n]
    /\ Len(audit_logs) = 2

\* C17: a request that ends in an error (401, 403, 404 or 400) leaves every
\* roster and the audit log exactly as they were.
C17_Step ==
    (nreq' = nreq + 1 /\ last'.status \in {400, 401, 403, 404})
    => /\ capabilities' = capabilities
       /\ audit_logs' = audit_logs

C17_ErrorsChangeNothing == [][C17_Step]_vars

C17_Witness ==
    /\ last.op = "register"
    /\ last.status = 400
    /\ Len(audit_logs) = 2
    /\ audit_logs[2].action = "register"

\* C18: with requests served one at a time, no email appears twice in the
\* roster of any capability.
C18_RosterUnique ==
    \A n \in DOMAIN capabilities :
        \A i, j \in 1..Len(Roster(capabilities, n)) :
            i # j => Roster(capabilities, n)[i] # Roster(capabilities, n)[j]

C18_Witness ==
    /\ last.op = "register"
    /\ last.status = 200
    /\ Len(Roster(capabilities, last.cap)) = Len(Roster(SeedCapabilities, last.cap)) + 1
    /\ last.email \in Range(Roster(capabilities, last.cap))

====
